---- MODULE Spec2Model ----
(***************************************************************************)
(* tabulator::tabulate (src/tabulator/tabulator.h): line by line output of *)
(* N texts into word-wrapped, left-aligned columns.                        *)
(*                                                                         *)
(* A character is a one-character string.  NUL stands for the character    *)
(* '\0': it ends every C string, and a column built from a std::string may *)
(* hold it inside its text (column::size is then s.size()).                *)
(* Column and character indices are 0-based as in the source; a TLA+       *)
(* sequence is 1-based, so column col is c[col + 1] and the character at   *)
(* index i of a text p is p[i + 1].                                        *)
(***************************************************************************)
EXTENDS Integers, Sequences, FiniteSets, TLC

\* Bounds of the model: the total number of text characters over all the
\* columns of one call, and the largest column width.
MaxChars == 3
MaxWidth == 3

\* Bounds of the calls that exercise the padding of switch_col: the length
\* of the one word of the first column, and its largest width.
MaxWord == 12
MaxPadWidth == 17

NL == "\n"
TAB == "\t"
NUL == "\\0"

\* The characters a text is drawn from, the fill characters, the separators.
Chars == {"a", " ", NL, NUL}
Fills == {" ", TAB}
Seps == {" | "}

\* The texts of at most n characters drawn from S.
Texts(S, n) == UNION {[1..k -> S] : k \in 0..n}

\* struct column: p is the text, size its length, width the column width.
column(s, w) == [p |-> s, size |-> Len(s), width |-> w]

\* s[i] of the source: the text is followed by its terminating NUL.
CharAt(col_, i) == IF i < col_.size THEN col_.p[i + 1] ELSE NUL

\* isws: isblank() in the "C" locale.
isws(ch) == ch \in {" ", TAB}

\* end with size < cp for size <= cp.
endLt(st, col_) == col_.size < st.cp

\* colstate::end
end(st, col_) == col_.size <= st.cp

\* nextWordFitsLoop with l <= colwidth for l < colwidth.
RECURSIVE nextWordFitsLoopLe(_, _, _)
nextWordFitsLoopLe(col_, i, l) ==
    IF CharAt(col_, i) # NUL /\ l <= col_.width
    THEN IF isws(CharAt(col_, i)) THEN TRUE
         ELSE nextWordFitsLoopLe(col_, i + 1, l + 1)
    ELSE l <= col_.width

\* nextWordFitsLoop without ++l: the characters of the next word are not
\* counted.
RECURSIVE nextWordFitsLoopNoCount(_, _, _)
nextWordFitsLoopNoCount(col_, i, l) ==
    IF CharAt(col_, i) # NUL /\ l < col_.width
    THEN IF isws(CharAt(col_, i)) THEN TRUE
         ELSE nextWordFitsLoopNoCount(col_, i + 1, l)
    ELSE l < col_.width

\* colstate::nextWordFits: the loop from i = cp, l = lp.
RECURSIVE nextWordFitsLoop(_, _, _)
nextWordFitsLoop(col_, i, l) ==
    IF CharAt(col_, i) # NUL /\ l < col_.width
    THEN IF isws(CharAt(col_, i)) THEN TRUE
         ELSE nextWordFitsLoop(col_, i + 1, l + 1)
    ELSE l < col_.width

nextWordFits(st, col_) == nextWordFitsLoop(col_, st.cp, st.lp)

\* linebreak without the isws test: any character breaks the line when the
\* next word does not fit.
linebreakNoWs(st, ch, col_) == ch = NL \/ ~nextWordFits(st, col_)

\* linebreak without the test for the newline.
linebreakNoNl(st, ch, col_) == isws(ch) /\ ~nextWordFits(st, col_)

\* colstate::linebreak, called after consume has advanced cp past ch.
linebreak(st, ch, col_) == ch = NL \/ (isws(ch) /\ ~nextWordFits(st, col_))

\* PadCount with i <= colwidth for i < colwidth.
RECURSIVE PadCountLe(_, _, _)
PadCountLe(i, colwidth, inc) ==
    IF i <= colwidth THEN 1 + PadCountLe(i + inc, colwidth, inc) ELSE 0

\* switch_col: the number of fill characters the padding loop writes.
RECURSIVE PadCount(_, _, _)
PadCount(i, colwidth, inc) ==
    IF i < colwidth THEN 1 + PadCount(i + inc, colwidth, inc) ELSE 0

\* FillInc without the case of the tab.
FillIncOne(f) == IF f = TAB THEN 1 ELSE 1

\* switch_col, line 107: inc.
FillInc(f) == IF f = TAB THEN 8 ELSE 1

\* emit_col, lines 115-124: the cursor the whole loop leaves, from cursor st.
RECURSIVE emit_col(_, _)
emit_col(st, col_) ==
    IF end(st, col_) THEN st
    ELSE LET ch == CharAt(col_, st.cp)
             st1 == [st EXCEPT !.cp = st.cp + 1]
         IN  IF ch = NUL \/ linebreak(st1, ch, col_) THEN st1
             ELSE emit_col([st1 EXCEPT !.lp = st.lp + 1], col_)

\* is_unconsumed that looks at the first column only.
is_unconsumedFirst(state_, c_) == ~end(state_[1], c_[1])

\* is_unconsumed
is_unconsumed(state_, c_) ==
    \E i \in 1..Len(c_) : ~end(state_[i], c_[i])

VARIABLES
    c,      \* array<column,N>
    sep,    \* the separator
    fill,   \* the fill character
    state,  \* array<colstate,N>: cp and lp of every column
    col,    \* the column index of the inner loop of tabulate
    pc,     \* the position in tabulate
    os,     \* the sink: the writes made so far, each with what it is for
            \* (kind, column) and the line it is on
    took,   \* history: for every column, the round and the fate of each
            \* character consume has returned so far
    resets  \* history: for every column, the number of calls of breakLine

vars == <<c, sep, fill, state, col, pc, os, took, resets>>

N == Len(c)

\* The number of line terminators written, the rounds completed: every
\* write carries the number of its line.
Lines ==
    IF os = <<>> THEN 0
    ELSE IF os[Len(os)].kind = "nl" THEN os[Len(os)].line ELSE os[Len(os)].line - 1

\* The round in progress (1-based) while pc is inside the outer loop body.
Round == Lines + 1

Widths == 1..MaxWidth

\* The calls modelled: one column of any text, or two columns that share
\* the MaxChars characters between them and hold no NUL (a text with a NUL
\* inside needs a std::string and is left to the calls of one column).
OneColumn == {<<column(s, w)>> : s \in Texts(Chars, MaxChars), w \in Widths}

TwoColumns ==
    UNION {{<<column(s1, w1), column(s2, w2)>> :
               s2 \in Texts(Chars \ {NUL}, MaxChars - Len(s1)), w1 \in Widths, w2 \in Widths}
           : s1 \in Texts(Chars \ {NUL}, MaxChars)}

ColumnLists == OneColumn \cup TwoColumns

Init ==
    /\ c \in ColumnLists
    /\ sep \in Seps
    /\ fill \in Fills
    /\ state = [i \in 1..Len(c) |-> [cp |-> 0, lp |-> 0]]
    /\ col = 0
    /\ pc = "test"
    /\ os = <<>>
    /\ took = [i \in 1..Len(c) |-> <<>>]
    /\ resets = [i \in 1..Len(c) |-> 0]

\* tabulate, line 179: the test of the outer loop.
LoopTest ==
    /\ pc = "test"
    /\ \/ /\ is_unconsumed(state, c)
          /\ pc' = "emit"
          /\ col' = 0
       \/ /\ ~is_unconsumed(state, c)
          /\ pc' = "done"
          /\ col' = col
    /\ UNCHANGED <<c, sep, fill, state, os, took, resets>>

\* EmitStep without the exit on ch == 0: at the end of the text the loop
\* of emit_col keeps calling consume, which returns 0 and changes nothing.
EmitStepNoExit ==
    /\ pc = "emit"
    /\ LET k == col + 1
           st == state[k]
           ch == CharAt(c[k], st.cp)
           br == linebreak([st EXCEPT !.cp = st.cp + 1], ch, c[k])
       IN  \/ /\ end(st, c[k])
              /\ UNCHANGED <<state, os, took, pc>>
           \/ /\ ~end(st, c[k])
              /\ state' = [state EXCEPT ![k] = [cp |-> st.cp + 1,
                                                lp |-> IF ch = NUL \/ br THEN st.lp ELSE st.lp + 1]]
              /\ os' = IF ch = NUL \/ br THEN os
                       ELSE Append(os, [kind |-> "text", s |-> ch, col |-> col, line |-> Round])
              /\ took' = [took EXCEPT ![k] = Append(@, [round |-> Round, emitted |-> ~(ch = NUL \/ br)])]
              /\ pc' = IF ch = NUL \/ br THEN "switch" ELSE "emit"
    /\ UNCHANGED <<c, sep, fill, col, resets>>

\* EmitStep that only peeks at the character a line breaks at: the character
\* stays in the text for the next round.
EmitStepPeekBreak ==
    /\ pc = "emit"
    /\ LET k == col + 1
           st == state[k]
           ch == CharAt(c[k], st.cp)
           br == linebreak([st EXCEPT !.cp = st.cp + 1], ch, c[k])
       IN  \/ /\ end(st, c[k]) \/ br
              /\ pc' = "switch"
              /\ UNCHANGED <<state, os, took>>
           \/ /\ ~end(st, c[k]) /\ ~br
              /\ state' = [state EXCEPT ![k] = [cp |-> st.cp + 1,
                                                lp |-> IF ch = NUL THEN st.lp ELSE st.lp + 1]]
              /\ os' = IF ch = NUL THEN os
                       ELSE Append(os, [kind |-> "text", s |-> ch, col |-> col, line |-> Round])
              /\ took' = [took EXCEPT ![k] = Append(@, [round |-> Round, emitted |-> ch # NUL])]
              /\ pc' = IF ch = NUL THEN "switch" ELSE "emit"
    /\ UNCHANGED <<c, sep, fill, col, resets>>

\* EmitStep that emits ch before it tests it: the character a line breaks
\* at is written too.
EmitStepEmitBreak ==
    /\ pc = "emit"
    /\ LET k == col + 1
           st == state[k]
           ch == CharAt(c[k], st.cp)
           br == linebreak([st EXCEPT !.cp = st.cp + 1], ch, c[k])
       IN  \/ /\ end(st, c[k])
              /\ pc' = "switch"
              /\ UNCHANGED <<state, os, took>>
           \/ /\ ~end(st, c[k])
              /\ state' = [state EXCEPT ![k] = [cp |-> st.cp + 1,
                                                lp |-> IF ch = NUL THEN st.lp ELSE st.lp + 1]]
              /\ os' = IF ch = NUL THEN os
                       ELSE Append(os, [kind |-> "text", s |-> ch, col |-> col, line |-> Round])
              /\ took' = [took EXCEPT ![k] = Append(@, [round |-> Round, emitted |-> ch # NUL])]
              /\ pc' = IF ch = NUL \/ br THEN "switch" ELSE "emit"
    /\ UNCHANGED <<c, sep, fill, col, resets>>

\* EmitStep that tests the line break against the width of the first column:
\* a width shared by the columns.
EmitStepFirstWidth ==
    /\ pc = "emit"
    /\ LET k == col + 1
           st == state[k]
           ch == CharAt(c[k], st.cp)
           br == linebreak([st EXCEPT !.cp = st.cp + 1], ch,
                           [c[k] EXCEPT !.width = c[1].width])
       IN  \/ /\ end(st, c[k])
              /\ pc' = "switch"
              /\ UNCHANGED <<state, os, took>>
           \/ /\ ~end(st, c[k])
              /\ state' = [state EXCEPT ![k] = [cp |-> st.cp + 1,
                                                lp |-> IF ch = NUL \/ br THEN st.lp ELSE st.lp + 1]]
              /\ os' = IF ch = NUL \/ br THEN os
                       ELSE Append(os, [kind |-> "text", s |-> ch, col |-> col, line |-> Round])
              /\ took' = [took EXCEPT ![k] = Append(@, [round |-> Round, emitted |-> ~(ch = NUL \/ br)])]
              /\ pc' = IF ch = NUL \/ br THEN "switch" ELSE "emit"
    /\ UNCHANGED <<c, sep, fill, col, resets>>

\* emit_col, lines 118-123: one iteration of the loop on column col.
EmitStep ==
    /\ pc = "emit"
    /\ LET k == col + 1
           st == state[k]
       IN  \/ \* consume returns 0 at the end of the text: the loop ends
              /\ end(st, c[k])
              /\ pc' = "switch"
              /\ UNCHANGED <<state, os, took>>
           \/ \* consume returns the NUL character of the text: the loop ends
              /\ ~end(st, c[k])
              /\ CharAt(c[k], st.cp) = NUL
              /\ state' = [state EXCEPT ![k].cp = st.cp + 1]
              /\ took' = [took EXCEPT ![k] = Append(@, [round |-> Round, emitted |-> FALSE])]
              /\ pc' = "switch"
              /\ UNCHANGED os
           \/ \* a line break: ch is dropped and the loop ends
              /\ ~end(st, c[k])
              /\ CharAt(c[k], st.cp) # NUL
              /\ linebreak([st EXCEPT !.cp = st.cp + 1], CharAt(c[k], st.cp), c[k])
              /\ state' = [state EXCEPT ![k].cp = st.cp + 1]
              /\ took' = [took EXCEPT ![k] = Append(@, [round |-> Round, emitted |-> FALSE])]
              /\ pc' = "switch"
              /\ UNCHANGED os
           \/ \* ch is emitted
              /\ ~end(st, c[k])
              /\ CharAt(c[k], st.cp) # NUL
              /\ ~linebreak([st EXCEPT !.cp = st.cp + 1], CharAt(c[k], st.cp), c[k])
              /\ state' = [state EXCEPT ![k] = [cp |-> st.cp + 1, lp |-> st.lp + 1]]
              /\ os' = Append(os, [kind |-> "text", s |-> CharAt(c[k], st.cp), col |-> col, line |-> Round])
              /\ took' = [took EXCEPT ![k] = Append(@, [round |-> Round, emitted |-> TRUE])]
              /\ pc' = "emit"
    /\ UNCHANGED <<c, sep, fill, col, resets>>

\* SwitchCol with col < N for col + 1 < N: switch_col after the last column
\* too.
SwitchColAll ==
    /\ pc = "switch"
    /\ os' = os
             \o [j \in 1..PadCount(state[col + 1].lp, c[col + 1].width, FillInc(fill))
                   |-> [kind |-> "fill", s |-> fill, col |-> col, line |-> Round]]
             \o <<[kind |-> "sep", s |-> sep, col |-> col, line |-> Round]>>
    /\ pc' = "break"
    /\ UNCHANGED <<c, sep, fill, state, col, took, resets>>

\* tabulate, lines 183-184: switch_col for every column but the last.
SwitchCol ==
    /\ pc = "switch"
    /\ \/ /\ col + 1 < N
          /\ os' = os
                   \o [j \in 1..PadCount(state[col + 1].lp, c[col + 1].width, FillInc(fill))
                         |-> [kind |-> "fill", s |-> fill, col |-> col, line |-> Round]]
                   \o <<[kind |-> "sep", s |-> sep, col |-> col, line |-> Round]>>
       \/ /\ ~(col + 1 < N)
          /\ os' = os
    /\ pc' = "break"
    /\ UNCHANGED <<c, sep, fill, state, col, took, resets>>

\* BreakLine with a breakLine that resets the whole cursor, cp too.
BreakLineAll ==
    /\ pc = "break"
    /\ state' = [state EXCEPT ![col + 1] = [cp |-> 0, lp |-> 0]]
    /\ resets' = [resets EXCEPT ![col + 1] = @ + 1]
    /\ col' = col + 1
    /\ pc' = IF col + 1 < N THEN "emit" ELSE "nl"
    /\ UNCHANGED <<c, sep, fill, os, took>>

\* tabulate, lines 185 and 181: breakLine, then ++col and the inner loop test.
BreakLine ==
    /\ pc = "break"
    /\ state' = [state EXCEPT ![col + 1].lp = 0]
    /\ resets' = [resets EXCEPT ![col + 1] = @ + 1]
    /\ col' = col + 1
    /\ \/ /\ col + 1 < N
          /\ pc' = "emit"
       \/ /\ ~(col + 1 < N)
          /\ pc' = "nl"
    /\ UNCHANGED <<c, sep, fill, os, took>>

\* tabulate, line 187: the line terminator.
NewLine ==
    /\ pc = "nl"
    /\ os' = Append(os, [kind |-> "nl", s |-> NL, col |-> N, line |-> Round])
    /\ pc' = "test"
    /\ UNCHANGED <<c, sep, fill, state, col, took, resets>>

Next == LoopTest \/ EmitStep \/ SwitchCol \/ BreakLine \/ NewLine

Spec == Init /\ [][Next]_vars

\* tabulate runs on one thread from call to return: every step that can be
\* taken is taken.
FairSpec == Spec /\ WF_vars(Next)

\* The text of a string literal, character by character.
Abc == <<"a", "b", "c">>
Def == <<"d", "e", "f">>
Ghi == <<"g", "h", "i">>
ExampleFirst == Abc \o <<" ">> \o Def \o <<" ">> \o Ghi
ExampleSecond ==
    <<"1", "2", "3", " ", "4", "4", "3", "2", " ", "1", "7", " ", "8", "9", "8", "9">>

\* The calls of the documentation of the three overloads of tabulate, lines
\* 161-163, 212-214 and 246-248: the same two columns, with sep " | " or
\* " " and fill ' '.
ExampleInit ==
    /\ c = <<column(ExampleFirst, 6), column(ExampleSecond, 4)>>
    /\ sep \in {" | ", " "}
    /\ fill = " "
    /\ state = [i \in 1..Len(c) |-> [cp |-> 0, lp |-> 0]]
    /\ col = 0
    /\ pc = "test"
    /\ os = <<>>
    /\ took = [i \in 1..Len(c) |-> <<>>]
    /\ resets = [i \in 1..Len(c) |-> 0]

ExampleSpec == ExampleInit /\ [][Next]_vars

\* Calls of two columns whose first text is one word of up to MaxWord
\* characters in a column of width up to MaxPadWidth, and whose second text
\* is empty: switch_col pads the first column from every line_pos.
PadInit ==
    /\ c \in {<<column([i \in 1..n |-> "a"], w), column(<<>>, 1)>> :
                 n \in 0..MaxWord, w \in 1..MaxPadWidth}
    /\ sep \in Seps
    /\ fill \in Fills
    /\ state = [i \in 1..Len(c) |-> [cp |-> 0, lp |-> 0]]
    /\ col = 0
    /\ pc = "test"
    /\ os = <<>>
    /\ took = [i \in 1..Len(c) |-> <<>>]
    /\ resets = [i \in 1..Len(c) |-> 0]

PadSpec == PadInit /\ [][Next]_vars

(***************************************************************************)
(* History read off the sink and off took.                                 *)
(***************************************************************************)
\* The line (1-based) the q-th write belongs to.
LineOf(q) == os[q].line

\* The number of writes of a kind made for column j (0-based) on line r.
Count(kind, j, r) ==
    Cardinality({q \in 1..Len(os) : os[q].kind = kind /\ os[q].col = j /\ LineOf(q) = r})

\* The indices (1-based) of the characters of column k (1-based) emitted in
\* round r: the segment of the column on line r.
SegIdx(k, r) == {i \in 1..Len(took[k]) : took[k][i].round = r /\ took[k][i].emitted}

\* The text written for column j (0-based) on line r, in the order written.
LineText(j, r) ==
    LET IsText(w) == w.kind = "text" /\ w.col = j /\ w.line = r
        ws == SelectSeq(os, IsText)
    IN  [m \in 1..Len(ws) |-> ws[m].s]

\* The characters from i to j of the text of column k are all outside S.
RunAvoids(k, i, j, S) == \A m \in i..j : c[k].p[m] \notin S

Blanks == {" ", TAB}
\* The characters emit_col may stop at.
Stops == {" ", TAB, NL, NUL}

(***************************************************************************)
(* C1  Termination: for every non-empty list of columns with finite texts  *)
(* and widths >= 1, and any separator and fill, tabulate returns: the      *)
(* outer loop reaches a state in which every cursor is exhausted and the   *)
(* call is over.                                                           *)
(***************************************************************************)
Returned == pc = "done" /\ \A i \in 1..N : end(state[i], c[i])

C1_Terminates == <>Returned

\* A call of two columns has returned after more than one round.
C1_Witness == Returned /\ N = 2 /\ Lines >= 2

(***************************************************************************)
(* C2  No overflow.  As claimed: at the end of emit_col the line_pos of    *)
(* the column never exceeds the width of the column.                       *)
(***************************************************************************)
C2_NoOverflow ==
    pc = "switch" => state[col + 1].lp <= c[col + 1].width

\* C2 as amended: at the end of emit_col the line_pos of the column does not
\* exceed its width, unless the segment is a single word (it holds no blank).
C2_NoOverflowButWord ==
    pc = "switch" =>
        \/ state[col + 1].lp <= c[col + 1].width
        \/ \A i \in SegIdx(col + 1, Round) : c[col + 1].p[i] \notin Blanks

\* A segment of several words that fills its column exactly.
C2_Witness ==
    /\ pc = "switch"
    /\ state[col + 1].lp = c[col + 1].width
    /\ \E i \in SegIdx(col + 1, Round) : c[col + 1].p[i] \in Blanks
    /\ \E i \in SegIdx(col + 1, Round) : c[col + 1].p[i] \notin Blanks

(***************************************************************************)
(* C3  Word integrity.  As claimed, with a word a maximal run of non-blank *)
(* characters: any two emitted characters of a column with no blank from   *)
(* the one to the other are emitted in the same round.                     *)
(***************************************************************************)
SameLine(k, i, j) ==
    /\ took[k][i].emitted /\ took[k][j].emitted
    /\ took[k][i].round = took[k][j].round

C3_WordIntegrity ==
    \A k \in 1..N : \A i, j \in 1..Len(took[k]) :
        (i < j /\ RunAvoids(k, i, j, Blanks) /\ took[k][i].emitted /\ took[k][j].emitted)
            => took[k][i].round = took[k][j].round

\* C3 as amended: a word is a maximal run of characters that are neither
\* blank, nor newline, nor NUL; its characters are all emitted, in one round.
C3_WordIntegrityStops ==
    \A k \in 1..N : \A i, j \in 1..Len(took[k]) :
        (i < j /\ RunAvoids(k, i, j, Stops)) => SameLine(k, i, j)

\* A word of two characters moved whole to the second line, after the blank
\* before it broke the first line.
C3_Witness ==
    \E k \in 1..N : \E j \in 3..Len(took[k]) :
        /\ RunAvoids(k, j - 1, j, Stops)
        /\ c[k].p[j - 2] \in Blanks /\ ~took[k][j - 2].emitted
        /\ SameLine(k, j - 1, j)
        /\ took[k][j].round = 2

(***************************************************************************)
(* C4  Alignment.  As claimed: when fill is not the tab, for every column  *)
(* but the last, the text characters plus the fill characters written for  *)
(* the column on the line are width many when the separator is written.    *)
(***************************************************************************)
C4_Alignment ==
    (pc = "break" /\ col + 1 < N /\ fill # TAB) =>
        state[col + 1].lp + Count("fill", col, Round) = c[col + 1].width

\* C4 as amended: they are width many unless the text of the segment is
\* longer than width, and then no fill character is written.
C4_AlignmentOrNoFill ==
    (pc = "break" /\ col + 1 < N /\ fill # TAB) =>
        /\ Count("text", col, Round) = state[col + 1].lp
        /\ Count("sep", col, Round) = 1
        /\ IF state[col + 1].lp <= c[col + 1].width
           THEN state[col + 1].lp + Count("fill", col, Round) = c[col + 1].width
           ELSE Count("fill", col, Round) = 0

\* A segment with text, padded with more than one fill character.
C4_Witness ==
    /\ pc = "break" /\ col + 1 < N /\ fill # TAB
    /\ state[col + 1].lp > 0
    /\ Count("fill", col, Round) > 1
    /\ Round > 1

(***************************************************************************)
(* C5  The number of lines tabulate has written when it returns is the     *)
(* largest, over the columns, of the number of rounds the column needs on  *)
(* its own, from its text and width alone, to become exhausted; it is 0    *)
(* when every text is empty.                                               *)
(***************************************************************************)
\* The rounds a column needs on its own from consume_pos cp_ on: each round
\* runs emit_col from line_pos 0.
RECURSIVE RoundsAlone(_, _)
RoundsAlone(col_, cp_) ==
    IF col_.size <= cp_ THEN 0
    ELSE 1 + RoundsAlone(col_, emit_col([cp |-> cp_, lp |-> 0], col_).cp)

MaxRounds == CHOOSE m \in {RoundsAlone(c[i], 0) : i \in 1..N} :
                 \A i \in 1..N : RoundsAlone(c[i], 0) <= m

C5_LineCount ==
    /\ pc = "done" => Lines = MaxRounds
    /\ Lines <= MaxRounds

\* A call has returned whose second column needed more rounds than its first.
C5_Witness ==
    /\ pc = "done" /\ N = 2
    /\ RoundsAlone(c[1], 0) >= 1
    /\ RoundsAlone(c[2], 0) > RoundsAlone(c[1], 0)
    /\ Lines = RoundsAlone(c[2], 0)

(***************************************************************************)
(* C6  Idempotent exhaustion: in every round that starts with a column     *)
(* exhausted (its text may be empty), consume returns no character of the  *)
(* column, so its consume_pos stays and no text character is written for   *)
(* it; up to the separator only fill characters are written for it, width  *)
(* of them when fill is not the tab.                                       *)
(***************************************************************************)
\* Column k (1-based) is exhausted when round r starts.
ExhaustedBefore(k, r) ==
    /\ Len(took[k]) >= c[k].size
    /\ \A i \in 1..Len(took[k]) : took[k][i].round < r

\* The rounds begun so far.
Rounds == 1..(IF pc \in {"test", "done"} THEN Lines ELSE Round)

C6_IdempotentExhaustion ==
    \A k \in 1..N :
        /\ state[k].cp = Len(took[k])
        /\ state[k].cp <= c[k].size
        /\ \A r \in Rounds :
              ExhaustedBefore(k, r) =>
                  /\ \A i \in 1..Len(took[k]) : took[k][i].round # r
                  /\ Count("text", k - 1, r) = 0
                  /\ (Count("sep", k - 1, r) = 1 /\ fill # TAB) =>
                         Count("fill", k - 1, r) = c[k].width

\* A first column with text, exhausted after round 1, has been padded in
\* round 2 while the second column went on.
C6_Witness ==
    /\ N = 2 /\ c[1].size > 0 /\ ExhaustedBefore(1, 2)
    /\ Lines >= 2
    /\ Count("fill", 0, 2) = c[1].width
    /\ Count("text", 1, 2) > 0

(***************************************************************************)
(* C7  Line structure: every line holds, column by column in the order     *)
(* 0..N-1, the text of the column and then, for every column but the last, *)
(* its fill and exactly one separator; after the text of the last column   *)
(* comes the line terminator and nothing else.  So a line has N-1          *)
(* separators.                                                             *)
(***************************************************************************)
\* The place of a write in its line.
Rank(w) ==
    CASE w.kind = "text" -> 3 * w.col
      [] w.kind = "fill" -> 3 * w.col + 1
      [] w.kind = "sep"  -> 3 * w.col + 2
      [] w.kind = "nl"   -> 3 * N

C7_LineStructure ==
    /\ \A q \in 1..Len(os) :
          /\ os[q].kind \in {"fill", "sep"} => os[q].col < N - 1
          /\ os[q].kind = "text" => os[q].col <= N - 1
          /\ os[q].kind = "nl" =>
                \A j \in 0..(N - 2) : Count("sep", j, LineOf(q)) = 1
    /\ \A q \in 1..(Len(os) - 1) :
          os[q].kind # "nl" =>
              /\ Rank(os[q]) <= Rank(os[q + 1])
              /\ os[q].kind = "sep" => Rank(os[q]) < Rank(os[q + 1])
    /\ pc \in {"test", "done"} => (os = <<>> \/ os[Len(os)].kind = "nl")

\* Two lines of two columns, the first column with text and fill in both.
C7_Witness ==
    /\ pc = "done" /\ N = 2 /\ Lines = 2
    /\ \A r \in 1..2 : Count("text", 0, r) > 0 /\ Count("fill", 0, r) > 0

(***************************************************************************)
(* C8  Oversized word: a word (a maximal run of characters that are        *)
(* neither blank, newline nor NUL) longer than the width of its column is  *)
(* emitted whole in one round, and it is the whole segment of its column   *)
(* in that round, so it starts at line_pos 0 with nothing before it and    *)
(* nothing after it; no fill character is written for the column on that   *)
(* line.  That tabulate still returns is C1.                               *)
(***************************************************************************)
\* i..j is a word of column k.
IsWord(k, i, j) ==
    /\ i <= j
    /\ RunAvoids(k, i, j, Stops)
    /\ i = 1 \/ c[k].p[i - 1] \in Stops
    /\ j = c[k].size \/ c[k].p[j + 1] \in Stops

C9_ExplicitNewline ==
    \A k \in 1..N : \A i \in 1..Len(took[k]) :
        c[k].p[i] = NL =>
            /\ ~took[k][i].emitted
            /\ \A j \in (i + 1)..Len(took[k]) : took[k][j].round > took[k][i].round
            /\ Count("text", k - 1, took[k][i].round) = Cardinality(SegIdx(k, took[k][i].round))
            /\ \A q \in 1..Len(os) :
                  (os[q].kind = "text" /\ os[q].col = k - 1
                      /\ LineOf(q) = took[k][i].round) => os[q].s # NL
            /\ (i = Len(took[k]) /\ took[k][i].round = Round /\ col = k - 1) => pc # "emit"

\* A newline was consumed with room left on the line, after a character of
\* the line, and the character after it went to the next line.
C9_Witness ==
    \E k \in 1..N :
        /\ Len(took[k]) = 3 /\ c[k].p[2] = NL /\ c[k].width = 3
        /\ took[k][1].emitted /\ took[k][1].round = 1
        /\ took[k][3].emitted /\ took[k][3].round = 2

(***************************************************************************)
(* C10  Single short column.  As claimed: when tabulate is called with     *)
(* one column whose text is shorter than its width, it writes exactly one  *)
(* line, and the line holds no fill character and no separator.            *)
(***************************************************************************)
NoFillNoSep == \A q \in 1..Len(os) : os[q].kind \in {"text", "nl"}

C10_SingleShortColumn ==
    (pc = "done" /\ N = 1 /\ c[1].size < c[1].width) =>
        Lines = 1 /\ NoFillNoSep

\* C10 as amended: the text is not empty either, and holds no newline and no
\* NUL; the line is then the text and the line terminator.
C10_SingleShortPlainColumn ==
    (pc = "done" /\ N = 1 /\ c[1].size < c[1].width
        /\ c[1].size > 0 /\ RunAvoids(1, 1, c[1].size, {NL, NUL})) =>
        /\ Lines = 1 /\ NoFillNoSep
        /\ [q \in 1..Len(os) |-> os[q].s] = c[1].p \o <<NL>>

\* A text of a word and a blank, shorter than its width, has been written.
C10_Witness ==
    /\ pc = "done" /\ N = 1 /\ c[1].size < c[1].width
    /\ c[1].p = <<"a", " ">>
    /\ Lines = 1

(***************************************************************************)
(* C11  Documented example.  As claimed: for tabulate(out, " | ", ' ',     *)
(* column("abc def ghi", 6), column("123 4432 17 8989", 4)) the segments   *)
(* of the first column are "abc def" and then "ghi".                       *)
(***************************************************************************)
C11_ExampleAsClaimed ==
    (pc = "done" /\ sep = " | ") =>
        /\ LineText(0, 1) = Abc \o <<" ">> \o Def
        /\ LineText(0, 2) = Ghi

\* C11 as amended: the segments of the first column are "abc", "def" and
\* "ghi", and then the empty segment of the fourth line.
C11_ExampleSegments ==
    /\ (pc = "done" /\ sep = " | ") =>
          /\ Lines = 4
          /\ LineText(0, 1) = Abc
          /\ LineText(0, 2) = Def
          /\ LineText(0, 3) = Ghi
          /\ LineText(0, 4) = <<>>
    /\ \A r \in 1..Lines : Len(LineText(0, r)) <= 3

\* The call with sep " | " has returned, its second line starting with "def".
C11_Witness ==
    /\ pc = "done" /\ sep = " | " /\ fill = " "
    /\ c[1].p = ExampleFirst /\ c[1].width = 6
    /\ LineText(0, 2) = Def

(***************************************************************************)
(* C12  No trailing blanks.  As claimed: no segment of a column (the       *)
(* characters emit_col writes in one round) ends with a blank: after an    *)
(* emitted blank the segment goes on.                                      *)
(***************************************************************************)
\* The segment of column k does not end at its i-th character: the next
\* character is emitted in the same round, or emit_col is still running.
GoesOn(k, i) ==
    /\ i < Len(took[k]) => took[k][i + 1].emitted /\ took[k][i + 1].round = took[k][i].round
    /\ i = Len(took[k]) => pc = "emit" /\ col = k - 1 /\ took[k][i].round = Round

C12_NoTrailingBlank ==
    \A k \in 1..N : \A i \in 1..Len(took[k]) :
        (took[k][i].emitted /\ c[k].p[i] \in Blanks) => GoesOn(k, i)

\* C12 as amended: no segment ends with a blank that a word character
\* follows in the text; a segment may end with a blank that is the last
\* character of the text or that a blank, a newline or a NUL follows.  The
\* blank a line is broken at is never written.
C12_NoBlankBeforeWord ==
    \A k \in 1..N : \A i \in 1..Len(took[k]) :
        /\ (took[k][i].emitted /\ c[k].p[i] \in Blanks
               /\ i < c[k].size /\ c[k].p[i + 1] \notin Stops) => GoesOn(k, i)
        /\ (c[k].p[i] \in Blanks /\ i < Len(took[k])
               /\ took[k][i + 1].round > took[k][i].round) => ~took[k][i].emitted

\* A blank was emitted and the word after it followed on the same line; the
\* segment has ended.
C12_Witness ==
    \E k \in 1..N :
        /\ Len(took[k]) = 3 /\ c[k].p[2] \in Blanks /\ c[k].p[3] \notin Stops
        /\ took[k][2].emitted /\ took[k][3].emitted
        /\ pc = "switch" /\ col = k - 1

(***************************************************************************)
(* C13  Per-round progress: in every round, every column that is not       *)
(* exhausted when the round starts has consumed at least one character     *)
(* when its emit_col of the round is over; so the number of rounds never   *)
(* exceeds the length of the longest text.                                 *)
(***************************************************************************)
\* The number of characters column k consumed before round r / in round r.
ConsumedBefore(k, r) == Cardinality({i \in 1..Len(took[k]) : took[k][i].round < r})
ConsumedIn(k, r) == Cardinality({i \in 1..Len(took[k]) : took[k][i].round = r})

\* emit_col has returned for column k (1-based) in round r.
EmitColOver(k, r) ==
    \/ r <= Lines
    \/ /\ r = Round /\ pc \in {"emit", "switch", "break", "nl"}
       /\ col > k - 1 \/ (col = k - 1 /\ pc \in {"switch", "break"})

LongestText == CHOOSE m \in {c[i].size : i \in 1..N} : \A i \in 1..N : c[i].size <= m

C13_RoundProgress ==
    /\ \A k \in 1..N : \A r \in 1..Round :
          (EmitColOver(k, r) /\ ConsumedBefore(k, r) < c[k].size) => ConsumedIn(k, r) >= 1
    /\ Lines <= LongestText
    /\ pc \in {"emit", "switch", "break", "nl"} => Round <= LongestText

\* A round in which a column consumed nothing but the blank that broke its
\* line, with more of its text to come.
C13_Witness ==
    \E k \in 1..N :
        /\ Lines >= 1 /\ c[k].size >= 2
        /\ ConsumedIn(k, 1) = 1 /\ ~took[k][1].emitted /\ c[k].p[1] \in Blanks

(***************************************************************************)
(* C14  The break character is dropped and nothing else: the text written  *)
(* for a column, over all the lines, is the text consumed so far without   *)
(* the characters that broke a line, in the order of the text; a character *)
(* that is consumed and not written is a blank or a newline, it is the     *)
(* last one consumed in its round, and there is at most one in a round.    *)
(***************************************************************************)
\* The text written for column j (0-based) over all the lines.
AllText(j) ==
    LET IsText(w) == w.kind = "text" /\ w.col = j
        ws == SelectSeq(os, IsText)
    IN  [m \in 1..Len(ws) |-> ws[m].s]

\* The first n characters of the text of column k without those consumed and
\* not emitted.
RECURSIVE Kept(_, _)
Kept(k, n) ==
    IF n = 0 THEN <<>>
    ELSE IF took[k][n].emitted THEN Append(Kept(k, n - 1), c[k].p[n])
         ELSE Kept(k, n - 1)

\* The characters of column k consumed and not emitted in round r.
Dropped(k, r) == {i \in 1..Len(took[k]) : took[k][i].round = r /\ ~took[k][i].emitted}

C14_OnlyBreaksDropped ==
    \A k \in 1..N :
        /\ AllText(k - 1) = Kept(k, Len(took[k]))
        /\ \A i \in 1..Len(took[k]) :
              ~took[k][i].emitted =>
                  /\ c[k].p[i] \in Blanks \cup {NL}
                  /\ i < Len(took[k]) => took[k][i + 1].round > took[k][i].round
        /\ \A r \in 1..Round : Cardinality(Dropped(k, r)) <= 1

(***************************************************************************)
(* C15  Cursor invariant: for every column, consume_pos never decreases    *)
(* from one step to the next and 0 <= consume_pos <= len(text) always;     *)
(* breakLine sets line_pos to 0 and leaves consume_pos alone, no other     *)
(* step lowers line_pos, and breakLine is called exactly once for every    *)
(* column on every output line.                                            *)
(***************************************************************************)
\* breakLine has been called for column k (1-based) in the round in progress.
ResetInRound(k) == pc \in {"emit", "switch", "break", "nl"} /\ col > k - 1

C15_CursorBounds ==
    \A k \in 1..N :
        /\ 0 <= state[k].cp /\ state[k].cp <= c[k].size
        /\ 0 <= state[k].lp
        /\ resets[k] = Lines + (IF ResetInRound(k) THEN 1 ELSE 0)

C15_CursorSteps ==
    \A k \in 1..N :
        /\ state'[k].cp >= state[k].cp
        /\ resets'[k] # resets[k] => state'[k].lp = 0 /\ state'[k].cp = state[k].cp
        /\ resets'[k] = resets[k] => state'[k].lp >= state[k].lp

C15_CursorInvariant == []C15_CursorBounds /\ [][C15_CursorSteps]_vars

\* The first of two columns has been reset twice, in the middle of its text.
C15_Witness ==
    /\ N = 2 /\ Lines = 2 /\ resets = <<2, 2>>
    /\ state[1].lp = 0
    /\ 0 < state[1].cp /\ state[1].cp < c[1].size

(***************************************************************************)
(* C16  Word-fit boundary: whenever emit_col has a blank tested, with the  *)
(* cursor at line_pos lp and consume_pos cp past the blank, nextWordFits   *)
(* is true if and only if lp + k < width, k being the number of characters *)
(* from cp up to the next blank or the end of the text.  So a word that    *)
(* ends at width with the blank before it emitted (lp + 1 + k = width)     *)
(* fits, and a word one character longer does not.                         *)
(***************************************************************************)
\* The number of characters of the text from index i (0-based) up to the
\* next blank or the end of the text.
RECURSIVE RunLen(_, _)
RunLen(col_, i) ==
    IF i >= col_.size \/ isws(col_.p[i + 1]) THEN 0 ELSE 1 + RunLen(col_, i + 1)

C16_WordFitBoundary ==
    \A k \in 1..N :
        (pc = "emit" /\ col = k - 1 /\ ~end(state[k], c[k])
            /\ isws(CharAt(c[k], state[k].cp))) =>
            LET st1 == [state[k] EXCEPT !.cp = state[k].cp + 1]
            IN  nextWordFits(st1, c[k]) <=> (st1.lp + RunLen(c[k], st1.cp) < c[k].width)

(***************************************************************************)
(* C17  Tab fill.  As claimed: when fill is the tab, switch_col on a       *)
(* column at line_pos lp writes ceil((width - lp) / 8) tabs when           *)
(* lp < width and none when lp >= width, so that the position lp + 8 per   *)
(* tab after the padding is at least width and at most width + 7.          *)
(***************************************************************************)
\* switch_col has just run on column col with the tab for fill.
TabPadded == pc = "break" /\ col + 1 < N /\ fill = TAB

TabCount ==
    LET lp == state[col + 1].lp
        w == c[col + 1].width
    IN  /\ lp < w => Count("fill", col, Round) = (w - lp + 7) \div 8
        /\ lp >= w => Count("fill", col, Round) = 0

PadPos == state[col + 1].lp + 8 * Count("fill", col, Round)

C17_TabFill ==
    TabPadded =>
        /\ TabCount
        /\ PadPos >= c[col + 1].width
        /\ PadPos <= c[col + 1].width + 7

\* C17 as amended: the position after the padding is at most width + 7 when
\* lp < width; when lp >= width nothing is written and it stays lp.
C17_TabFillFromBelow ==
    TabPadded =>
        /\ TabCount
        /\ PadPos >= c[col + 1].width
        /\ state[col + 1].lp < c[col + 1].width => PadPos <= c[col + 1].width + 7
        /\ state[col + 1].lp >= c[col + 1].width => PadPos = state[col + 1].lp

\* Two tabs were written after a word, and they overshoot the width.
C17_Witness ==
    /\ TabPadded
    /\ state[col + 1].lp > 0
    /\ Count("fill", col, Round) = 2
    /\ PadPos > c[col + 1].width

(***************************************************************************)
(* C18  Greedy wrapping.  As claimed: a line of a column is broken at a    *)
(* blank only when the segment so far, that blank and the characters after *)
(* it up to the next blank, the next newline or the end of the text are    *)
(* more than width characters; when they fit, the blank is emitted.        *)
(***************************************************************************)
RECURSIVE RunToBreak(_, _)
\* The number of characters after the i-th up to the next blank, the next
\* newline or the end of the text.
RunToBreak(col_, i) ==
    IF i >= col_.size \/ isws(col_.p[i + 1]) \/ col_.p[i + 1] = NL
    THEN 0
    ELSE 1 + RunToBreak(col_, i + 1)

\* The length of the segment of column k before its i-th character.
SegLen(k, i) ==
    Cardinality({j \in 1..(i - 1) :
                    took[k][j].round = took[k][i].round /\ took[k][j].emitted})

C18_GreedyWrapping ==
    \A k \in 1..N : \A i \in 1..Len(took[k]) :
        (c[k].p[i] \in Blanks /\ ~took[k][i].emitted) =>
            SegLen(k, i) + 1 + RunToBreak(c[k], i) > c[k].width

(***************************************************************************)
(* C19  Column independence: the segments a column emits in rounds 1, 2,   *)
(* ... and its consume_pos after each round are the same in any two calls  *)
(* that give the column the same text and width, whatever the other        *)
(* columns, the separator and the fill are.  Stated of one call: in every  *)
(* call they are those that emit_col computes on the column alone, round   *)
(* after round from consume_pos 0, so two calls agree as far as the        *)
(* shorter one goes.                                                       *)
(***************************************************************************)
RECURSIVE CursorAfter(_, _)
\* The cursor of a column after emit_col of round r, computed on the column
\* alone; breakLine has reset line_pos before each round.
CursorAfter(col_, r) ==
    IF r = 0 THEN [cp |-> 0, lp |-> 0]
    ELSE emit_col([cp |-> CursorAfter(col_, r - 1).cp, lp |-> 0], col_)

C19_ColumnIndependence ==
    \A k \in 1..N : \A r \in 1..Round :
        EmitColOver(k, r) =>
            LET a == CursorAfter(c[k], r - 1)
                b == CursorAfter(c[k], r)
            IN  /\ LineText(k - 1, r) = [m \in 1..b.lp |-> c[k].p[a.cp + m]]
                /\ ConsumedBefore(k, r + 1) = b.cp

\* A call of two different columns has ended; the second column wrote text
\* on its second line, and the first column was exhausted before.
C19_Witness ==
    /\ pc = "done" /\ N = 2 /\ c[1] # c[2]
    /\ Lines >= 2
    /\ LineText(1, 2) # <<>>
    /\ LineText(0, 2) = <<>>

(***************************************************************************)
(* C20  Conditional no-overflow: a column all of whose maximal runs of     *)
(* characters other than blanks and newlines are at most width long has    *)
(* line_pos <= width in every reachable state.  An emitted blank never     *)
(* takes line_pos above width, and a line_pos above width is that of a     *)
(* segment without a blank: of a run that starts the line.                 *)
(***************************************************************************)
\* No width + 1 characters in a row of the text of column k are all other
\* than blanks and newlines.
ShortRuns(k) ==
    \A i \in 1..(c[k].size - c[k].width) :
        ~RunAvoids(k, i, i + c[k].width, Blanks \cup {NL})

C20_ConditionalNoOverflow ==
    \A k \in 1..N :
        /\ ShortRuns(k) => state[k].lp <= c[k].width
        /\ \A i \in 1..Len(took[k]) :
               (c[k].p[i] \in Blanks /\ took[k][i].emitted) =>
                   SegLen(k, i) + 1 <= c[k].width
        /\ state[k].lp > c[k].width =>
               \A i \in SegIdx(k, Round) : c[k].p[i] \notin Blanks

\* A column of short runs has emitted a word, a blank and a word, and they
\* fill its width.
C20_Witness ==
    \E k \in 1..N :
        /\ ShortRuns(k)
        /\ Len(took[k]) = 3 /\ c[k].p[2] \in Blanks
        /\ took[k][1].emitted /\ took[k][2].emitted /\ took[k][3].emitted
        /\ state[k].lp = c[k].width

====
